---------------------------- MODULE Spec2Model ----------------------------
(***************************************************************************)
(* Model of the three scripts of geekmagic-ultra-scripts:                  *)
(*   cm_departures.py  - transit board  (fetch, parse_departures, render)  *)
(*   todoist_today.py  - task board     (fetch, parse_tasks, render)       *)
(*   upload.py         - uploader       (upload_image, main)               *)
(* One behaviour is one run of one entry point.  Text is a sequence of     *)
(* one-character strings, so that len(), slicing, lower() and comparison   *)
(* are computed the way Python computes them.                              *)
(***************************************************************************)
EXTENDS Integers, Sequences, FiniteSets, TLC

VARIABLES
    entry,          \* the entry point this run executes
    pc,             \* position of the run inside that entry point
    now,            \* datetime.now(timezone.utc), seconds
    token,          \* os.getenv('TODOIST_API_TOKEN')
    data,           \* cm_departures.main: data = fetch_departures()
    departures,     \* cm_departures.main: departures = parse_departures(data)
    tasks,          \* todoist_today.main: tasks = fetch_today_tasks()
    parsed_tasks,   \* todoist_today.main: parsed_tasks = parse_tasks(tasks)
    saved,          \* the images written by img.save, in order
    printed,        \* the messages printed, in order
    net,            \* the HTTP requests issued, in order
    raised,         \* the exception that ended the run, or "none"
    upl             \* upload.py: argv, filesystem, device, result, exit code

vars == <<entry, pc, now, token, data, departures, tasks, parsed_tasks,
          saved, printed, net, raised, upl>>

-----------------------------------------------------------------------------
(* Bounds of the model *)

MaxServices == 5
MaxActive == 4
MaxCompleted == 3
MaxRowsTransit == 4
MaxRowsTasks == 6

-----------------------------------------------------------------------------
(* Text *)

SeqsUpTo(S, n) == UNION {[1..k -> S] : k \in 0..n}

Take(s, n) == SubSeq(s, 1, IF n < Len(s) THEN n ELSE Len(s))

Letters == <<"a","b","c","d","e","f","g","h","i","j","k","l","m",
             "n","o","p","q","r","s","t","u","v","w","x","y","z">>

Capitals == <<"A","B","C","D","E","F","G","H","I","J","K","L","M",
              "N","O","P","Q","R","S","T","U","V","W","X","Y","Z">>

\* ord(c) for the characters task contents are made of.
Ord(c) ==
    IF c = " " THEN 32
    ELSE IF \E i \in 1..26 : Capitals[i] = c
         THEN 64 + (CHOOSE i \in 1..26 : Capitals[i] = c)
         ELSE 96 + (CHOOSE i \in 1..26 : Letters[i] = c)

\* str.lower() on one character.
LowerChar(c) ==
    IF \E i \in 1..26 : Capitals[i] = c
    THEN Letters[CHOOSE i \in 1..26 : Capitals[i] = c]
    ELSE c

\* str.lower()
Lower(s) == [i \in 1..Len(s) |-> LowerChar(s[i])]

\* Python's str <: lexicographic by code point, a proper prefix is smaller.
StrLess(a, b) ==
    \E i \in 1..(Len(b)) :
        /\ i <= Len(a) + 1
        /\ \A j \in 1..(i - 1) : a[j] = b[j]
        /\ \/ i = Len(a) + 1
           \/ i <= Len(a) /\ Ord(a[i]) < Ord(b[i])

StrLeq(a, b) == a = b \/ StrLess(a, b)

Digit(d) == <<"0","1","2","3","4","5","6","7","8","9">>[d + 1]

RECURSIVE NatStr(_)
NatStr(n) == IF n < 10 THEN <<Digit(n)>>
             ELSE NatStr(n \div 10) \o <<Digit(n % 10)>>

\* str(n) of an int, as an f-string formats it.
IntStr(n) == IF n < 0 THEN <<"-">> \o NatStr(0 - n) ELSE NatStr(n)

\* '%02d'
TwoDigits(n) == <<Digit(n \div 10), Digit(n % 10)>>

\* A string of n characters; its i-th character tells i.
Str(n) == [i \in 1..n |-> Letters[((i - 1) % 26) + 1]]


-----------------------------------------------------------------------------
(* cm_departures.py: configuration *)

IMAGE_WIDTH == 240
IMAGE_HEIGHT == 240
MAX_BUSES == 4

\* A value that may be missing from a dict: <<>> when absent, <<v>> when present.
Absent == <<>>
Some(v) == <<v>>

\* dict.get(key, default)
Get(opt, default) == IF opt = Absent THEN default ELSE opt[1]

\* `key in d and d[key]` for a list value: present and non-empty.
NonEmpty(opt) == opt # Absent /\ opt[1] # <<>>

-----------------------------------------------------------------------------
(* cm_departures.py: the payloads fetch_departures may return *)

\* An ISO-8601 timestamp with a UTC offset: the instant (seconds, UTC) and
\* the offset (seconds) datetime.fromisoformat reads from it.
Stamp(t, off) == [instant |-> t, utcoffset |-> off]

Nows == {1000}

RoutesOfStop == <<
    [id |-> "r1", name |-> Some(<<"1","7","5">>), color |-> Some("#FF0000"),
     text_color |-> Some("#000000")],
    [id |-> "r2", name |-> Absent, color |-> Absent, text_color |-> Absent],
    [id |-> "r1", name |-> Some(<<"N","3","7">>), color |-> Some("#0000FF"),
     text_color |-> Absent] >>

ServicePool == {
    [route_id |-> "r1", headsign |-> Some(Str(12)),
     live_departures_seconds |-> Some(<<90>>), next_departures |-> Absent],
    [route_id |-> "r2", headsign |-> Some(Str(14)),
     live_departures_seconds |-> Some(<<90, 600>>),
     next_departures |-> Some(<<Stamp(1010, 0)>>)],
    [route_id |-> "r9", headsign |-> Absent,
     live_departures_seconds |-> Some(<<>>),
     next_departures |-> Some(<<Stamp(1060, 3600), Stamp(1900, 3600),
                                Stamp(2800, 3600), Stamp(3700, 3600)>>)],
    [route_id |-> "r1", headsign |-> Some(Str(11)),
     live_departures_seconds |-> Absent,
     next_departures |-> Some(<<Stamp(940, 0)>>)],
    [route_id |-> "r9", headsign |-> Some(Str(3)),
     live_departures_seconds |-> Some(<<-30>>), next_departures |-> Absent],
    [route_id |-> "r2", headsign |-> Some(Str(3)),
     live_departures_seconds |-> Absent, next_departures |-> Some(<<>>)] }

\* response.json() of the departures endpoint.  `stops` absent, empty, or one
\* stop with up to MaxServices services.
Payload(is_empty, stops) == [is_none |-> FALSE, is_empty |-> is_empty, stops |-> stops]

Payloads ==
    {Payload(TRUE, Absent), Payload(FALSE, Absent), Payload(FALSE, Some(<<>>))}
    \cup {Payload(FALSE, Some(<<[services |-> Some(s), routes |-> Some(RoutesOfStop)]>>)) :
            s \in SeqsUpTo(ServicePool, MaxServices)}
    \cup {Payload(FALSE, Some(<<[services |-> Absent, routes |-> Absent]>>))}

\* fetch_departures returns None on a RequestException.
None == [is_none |-> TRUE, is_empty |-> TRUE, stops |-> Absent]

\* bool(data): None and the empty dict are falsy.
Truthy(d) == ~d.is_none /\ ~d.is_empty

-----------------------------------------------------------------------------
(* cm_departures.py: parse_departures *)

\* datetime.strftime('%H:%M') of an aware datetime: its own wall clock.
HHMM(stamp) ==
    LET wall == stamp.instant + stamp.utcoffset
    IN  TwoDigits((wall \div 3600) % 24) \o <<":">> \o TwoDigits((wall \div 60) % 60)

\* ', '.join(times)
RECURSIVE JoinComma(_)
JoinComma(times) ==
    IF times = <<>> THEN <<>>
    ELSE IF Len(times) = 1 THEN times[1]
    ELSE times[1] \o <<",", " ">> \o JoinComma(Tail(times))

\* routes = {r['id']: r for r in ...}; routes.get(route_id, {}): the last
\* route carrying the id wins, an unknown id gives the empty dict.
NoRoute == [id |-> "", name |-> Absent, color |-> Absent, text_color |-> Absent]

RouteOf(routes, route_id) ==
    LET hits == {i \in 1..Len(routes) : routes[i].id = route_id}
    IN  IF hits = {} THEN NoRoute
        ELSE routes[CHOOSE i \in hits : \A j \in hits : j <= i]

\* Whether the loop body reaches departures.append for this service.
HasDeparture(service) ==
    \/ NonEmpty(service.live_departures_seconds)
    \/ NonEmpty(service.next_departures)

\* minutes = seconds // 60
DepartureInfoLiveMinutes_rounded(seconds) == (seconds + 30) \div 60

DepartureInfoLiveMinutes(seconds) == seconds \div 60

\* The departure_info built for one service (one iteration of the loop).

DepartureInfo(service, routes, current_time) ==
    LET route == RouteOf(routes, service.route_id)
        base == [route_name |-> Get(route.name, <<"?","?","?">>),
                 headsign |-> Get(service.headsign, <<>>),
                 color |-> Get(route.color, "#888888"),
                 text_color |-> Get(route.text_color, "#FFFFFF")]
    IN  IF NonEmpty(service.live_departures_seconds)
        THEN LET seconds == service.live_departures_seconds[1][1]
             IN  [route_name |-> base.route_name, headsign |-> base.headsign,
                  color |-> base.color, text_color |-> base.text_color,
                  time_text |-> IntStr(DepartureInfoLiveMinutes(seconds))
                                \o <<" ","m","i","n">>,
                  additional_times |-> Absent,
                  is_live |-> TRUE,
                  sort_key |-> seconds]
        ELSE LET nd == service.next_departures[1]
                 more == SubSeq(nd, 2, IF Len(nd) < 3 THEN Len(nd) ELSE 3)
                 additional == [i \in 1..Len(more) |-> HHMM(more[i])]
             IN  [route_name |-> base.route_name, headsign |-> base.headsign,
                  color |-> base.color, text_color |-> base.text_color,
                  time_text |-> HHMM(nd[1]),
                  additional_times |-> IF additional # <<>>
                                       THEN Some(JoinComma(additional))
                                       ELSE Absent,
                  is_live |-> FALSE,
                  sort_key |-> nd[1].instant - current_time]

\* The list `departures` when the loop over the services ends.
RECURSIVE DepartureList(_, _, _)
DepartureList(services, routes, current_time) ==
    IF services = <<>> THEN <<>>
    ELSE LET n == Len(services)
             before == DepartureList(SubSeq(services, 1, n - 1), routes, current_time)
         IN  IF HasDeparture(services[n])
             THEN Append(before, DepartureInfo(services[n], routes, current_time))
             ELSE before

\* list.sort(key=lambda x: x['sort_key']): stable, ascending.
RECURSIVE SortBySortKey(_)
SortBySortKey(rows) ==
    IF rows = <<>> THEN <<>>
    ELSE LET n == Len(rows)
             x == rows[n]
             t == SortBySortKey(SubSeq(rows, 1, n - 1))
             k == Cardinality({i \in 1..Len(t) : t[i].sort_key <= x.sort_key})
         IN  SubSeq(t, 1, k) \o <<x>> \o SubSeq(t, k + 1, Len(t))

parse_departures_truncates_first(d, current_time) ==
    IF ~Truthy(d) \/ ~NonEmpty(d.stops) THEN <<>>
    ELSE LET stop == d.stops[1][1]
             services == Get(stop.services, <<>>)
             routes == Get(stop.routes, <<>>)
         IN  SortBySortKey(Take(DepartureList(services, routes, current_time),
                                MAX_BUSES))

parse_departures(d, current_time) ==
    IF ~Truthy(d) \/ ~NonEmpty(d.stops) THEN <<>>
    ELSE LET stop == d.stops[1][1]
             services == Get(stop.services, <<>>)
             routes == Get(stop.routes, <<>>)
         IN  Take(SortBySortKey(DepartureList(services, routes, current_time)),
                  MAX_BUSES)

-----------------------------------------------------------------------------
(* The canvas: every draw call is recorded, in order *)

\* One ImageDraw call.  p and q are the corner points (q = p for text);
\* role names what the call draws and row the row it belongs to (-1: none).
Op(op, role, row, p, q, text, fill) ==
    [op |-> op, role |-> role, row |-> row, x |-> p[1], y |-> p[2],
     x2 |-> q[1], y2 |-> q[2], text |-> text, fill |-> fill]

\* draw.textbbox width under ImageFont.load_default(), the font the except
\* branch falls back to: a fixed-width bitmap font.
DefaultGlyphWidth == 6

TextWidth(text) == DefaultGlyphWidth * Len(text)

RECURSIVE Concat(_)
Concat(ss) == IF ss = <<>> THEN <<>> ELSE ss[1] \o Concat(Tail(ss))

\* img.save(output_path, 'JPEG', quality=95) of an Image.new('RGB', (w, h)).
Image(path, ops) ==
    [path |-> path, format |-> "JPEG", width |-> IMAGE_WIDTH,
     height |-> IMAGE_HEIGHT, ops |-> ops]

-----------------------------------------------------------------------------
(* cm_departures.py: create_display_image *)

CmTruncate_hard_cut(headsign) ==
    LET max_chars == 11
    IN  IF Len(headsign) > max_chars
        THEN SubSeq(headsign, 1, max_chars) \o <<".">>
        ELSE headsign

CmTruncate(headsign) ==
    LET max_chars == 11
    IN  IF Len(headsign) > max_chars
        THEN SubSeq(headsign, 1, max_chars - 1) \o <<".">>
        ELSE headsign

\* `if i < MAX_BUSES - 1` before the row separator is drawn.
CmSeparatorAfter(i, rows) == i < MAX_BUSES - 1

CmHeaderOps(clock) ==
    << Op("rectangle", "header", -1, <<0, 0>>, <<IMAGE_WIDTH, 28>>, <<>>, "#1a1a1a"),
       Op("text", "title", -1, <<8, 6>>, <<8, 6>>,
          <<"D","E","P","A","R","T","U","R","E","S">>, "#FFFFFF"),
       Op("text", "clock", -1, <<IMAGE_WIDTH - TextWidth(clock) - 8, 6>>,
          <<IMAGE_WIDTH - TextWidth(clock) - 8, 6>>, clock, "#888888"),
       Op("line", "header_separator", -1, <<0, 28>>, <<IMAGE_WIDTH, 28>>, <<>>, "#2a2a2a"),
       Op("text", "caption", -1, <<8, 32>>, <<8, 32>>, <<"L","I","N","E">>, "#888888"),
       Op("text", "caption", -1, <<65, 32>>, <<65, 32>>,
          <<"D","E","S","T","I","N","A","T","I","O","N">>, "#888888"),
       Op("text", "caption", -1, <<185, 32>>, <<185, 32>>, <<"T","I","M","E">>, "#888888"),
       Op("line", "column_separator", -1, <<0, 45>>, <<IMAGE_WIDTH, 45>>, <<>>, "#2a2a2a") >>

\* row_height, and y_offset at the start of loop iteration i (from 0):
\* it starts at 50 and grows by row_height per iteration.
CmRowHeight == 47

CmRowTop(i) == 50 + i * CmRowHeight

\* The draw calls of loop iteration i (from 0) for departure dep.
CmRowOps(i, dep, rows) ==
    LET row_height == CmRowHeight
        y_offset == CmRowTop(i)
        route_x == 8
        route_y == y_offset + 8
        bar_width == 4
        bar_height == 30
        dest_x == 80
        dest_y == route_y + 1
        time_x == IMAGE_WIDTH - TextWidth(dep.time_text) - 6
        time_y == route_y + 1
        line_y == y_offset + row_height - 2
    IN  (IF i % 2 = 1
         THEN <<Op("rectangle", "row_background", i, <<0, y_offset - 2>>,
                   <<IMAGE_WIDTH, y_offset + row_height - 2>>, <<>>, "#0a0a0a")>>
         ELSE <<>>)
        \o <<Op("rectangle", "route_bar", i, <<route_x, route_y - 2>>,
                <<route_x + bar_width, route_y + bar_height>>, <<>>, dep.color),
             Op("text", "route_name", i, <<route_x + bar_width + 6, route_y>>,
                <<route_x + bar_width + 6, route_y>>, dep.route_name, "#FFFFFF"),
             Op("text", "headsign", i, <<dest_x, dest_y>>, <<dest_x, dest_y>>,
                CmTruncate(dep.headsign), "#CCCCCC")>>
        \o (IF dep.additional_times # Absent
            THEN <<Op("text", "additional_times", i, <<dest_x, dest_y + 15>>,
                      <<dest_x, dest_y + 15>>, dep.additional_times[1], "#999999")>>
            ELSE <<>>)
        \o <<Op("text", "time", i, <<time_x, time_y>>, <<time_x, time_y>>,
                dep.time_text, IF dep.is_live THEN "#FFA500" ELSE "#FFFFFF")>>
        \o (IF dep.is_live
            THEN <<Op("ellipse", "live_dot", i, <<time_x - 10, time_y + 10>>,
                      <<time_x - 10 + 6, time_y + 10 + 6>>, <<>>, "#FFA500")>>
            ELSE <<>>)
        \o (IF CmSeparatorAfter(i, rows)
            THEN <<Op("line", "row_separator", i, <<8, line_y>>,
                      <<IMAGE_WIDTH - 8, line_y>>, <<>>, "#2a2a2a")>>
            ELSE <<>>)

\* All draw calls of create_display_image(departures), in order.  The loop
\* breaks at i >= MAX_BUSES.
CmDrawOps(rows, clock) ==
    LET n == IF Len(rows) < MAX_BUSES THEN Len(rows) ELSE MAX_BUSES
    IN  CmHeaderOps(clock)
        \o Concat([i \in 1..n |-> CmRowOps(i - 1, rows[i], rows)])

\* datetime.now().strftime('%H:%M')
Clock(t) == HHMM(Stamp(t, 0))

cm_create_display_image(rows, t) ==
    Image("departures.jpg", CmDrawOps(rows, Clock(t)))

-----------------------------------------------------------------------------
(* todoist_today.py: configuration and the payloads of the two endpoints *)

MAX_TASKS == 6

\* PRIORITY_COLORS.get(priority, "#808080")
PriorityColor(priority) ==
    CASE priority = 4 -> "#d1453b"
      [] priority = 3 -> "#eb8909"
      [] priority = 2 -> "#4073ff"
      [] OTHER -> "#808080"

UntitledTask == <<"U","n","t","i","t","l","e","d"," ","T","a","s","k">>

\* Tasks of the active endpoint: content, priority and due may be missing;
\* a due dict may lack its 'string'.
ActivePool == {
    [content |-> Absent, priority |-> Some(4),
     due |-> Some([string |-> Some(<<"5","p","m">>)])],
    [content |-> Some(<<"e","m","a","i","l"," ","a","l">>), priority |-> Some(1),
     due |-> Some([string |-> Absent])],
    [content |-> Some(<<"B","o","b">>), priority |-> Absent, due |-> Absent] }

\* Items of the completed endpoint: a dict, with or without content, or
\* something that is no dict.
CompletedPool == {
    [is_dict |-> TRUE, content |-> Some(<<"B","u","y">>)],
    [is_dict |-> TRUE, content |-> Absent],
    [is_dict |-> FALSE, content |-> Absent] }

ActiveLists == SeqsUpTo(ActivePool, MaxActive)

CompletedLists == SeqsUpTo(CompletedPool, MaxCompleted)

-----------------------------------------------------------------------------
(* todoist_today.py: parse_tasks *)

\* task_info of an active task.
ActiveInfo(task) ==
    LET content == Get(task.content, UntitledTask)
        priority == Get(task.priority, 1)
        due == Get(task.due, [string |-> Absent])
        due_string == Get(due.string, <<>>)
    IN  [content |-> content,
         priority |-> priority,
         completed |-> FALSE,
         due_text |-> IF due_string # <<>> THEN due_string
                      ELSE <<"T","o","d","a","y">>,
         sort_key |-> <<0, 5 - priority, Lower(content)>>]

\* The sort key of a completed item: (1, 0, item.get('content', '').lower()).
CompletedSortKey(item) == <<1, 0, Lower(Get(item.content, <<>>))>>

\* task_info of a completed item that is a dict.
CompletedInfo(item) ==
    [content |-> Get(item.content, UntitledTask),
     priority |-> 1,
     completed |-> TRUE,
     due_text |-> <<"C","o","m","p","l","e","t","e","d">>,
     sort_key |-> CompletedSortKey(item)]

\* Tuple comparison of two sort keys (group, priority rank, lowercased content).
KeyLeq(a, b) ==
    \/ a[1] < b[1]
    \/ a[1] = b[1] /\ a[2] < b[2]
    \/ a[1] = b[1] /\ a[2] = b[2] /\ StrLeq(a[3], b[3])

\* parsed_tasks.sort(key=lambda x: x['sort_key']): stable, ascending.
RECURSIVE SortTasks(_)
SortTasks(rows) ==
    IF rows = <<>> THEN <<>>
    ELSE LET n == Len(rows)
             x == rows[n]
             t == SortTasks(SubSeq(rows, 1, n - 1))
             k == Cardinality({i \in 1..Len(t) : KeyLeq(t[i].sort_key, x.sort_key)})
         IN  SubSeq(t, 1, k) \o <<x>> \o SubSeq(t, k + 1, Len(t))

\* parsed_tasks before the sort: the active rows, then a row for every
\* completed item that is a dict.
RECURSIVE CompletedRows(_)
CompletedRows(items) ==
    IF items = <<>> THEN <<>>
    ELSE (IF items[1].is_dict THEN <<CompletedInfo(items[1])>> ELSE <<>>)
         \o CompletedRows(Tail(items))

TaskList(tasks_data) ==
    [i \in 1..Len(tasks_data.active) |-> ActiveInfo(tasks_data.active[i])]
    \o CompletedRows(tasks_data.completed)

\* tasks_data is the dict fetch_today_tasks returns: it always has both keys,
\* so `not tasks_data` is False.
parse_tasks(tasks_data) == Take(SortTasks(TaskList(tasks_data)), MAX_TASKS)

-----------------------------------------------------------------------------
(* todoist_today.py: create_display_image *)

TdTruncate(task_text) ==
    LET max_chars == 26
    IN  IF Len(task_text) > max_chars
        THEN SubSeq(task_text, 1, max_chars - 3) \o <<".", ".", ".">>
        ELSE task_text

\* `if i < len(tasks) - 1` before the separator is drawn.
TdSeparatorAfter(i, rows) == i < Len(rows) - 1

Count(rows, completed) ==
    Cardinality({i \in 1..Len(rows) : rows[i].completed = completed})

\* The caption under the title.
TaskCount(rows) ==
    IF Count(rows, TRUE) > 0
    THEN IntStr(Count(rows, FALSE)) \o <<" ","a","c","t","i","v","e"," ","U+00B7"," ">>
         \o IntStr(Count(rows, TRUE)) \o <<" ","c","o","m","p","l","e","t","e","d">>
    ELSE IntStr(Count(rows, FALSE)) \o <<" ","t","a","s","k","s">>

TdHeaderOps(rows) ==
    << Op("text", "title", -1, <<12, 10>>, <<12, 10>>, <<"T","o","d","a","y">>, "#de4c4a"),
       Op("text", "caption", -1, <<12, 30>>, <<12, 30>>, TaskCount(rows), "#888888"),
       Op("line", "header_separator", -1, <<0, 50>>, <<IMAGE_WIDTH, 50>>, <<>>, "#2a2a2a") >>

\* row_height, and y_offset at the start of loop iteration i (from 0):
\* it starts at 58 and grows by row_height per iteration.
TdRowHeight == 36

TdRowTop(i) == 58 + i * TdRowHeight

\* The draw calls of loop iteration i (from 0) for task.
TdRowOps(i, task, rows) ==
    LET row_height == TdRowHeight
        y_offset == TdRowTop(i)
        checkbox_x == 12
        checkbox_y == y_offset + 2
        checkbox_size == 16
        content_x == checkbox_x + checkbox_size + 10
        content_y == checkbox_y
        task_text == TdTruncate(task.content)
        info_y == content_y + 18
        line_y == y_offset + row_height - 2
    IN  (IF task.completed
         THEN <<Op("ellipse", "checkbox_filled", i, <<checkbox_x, checkbox_y>>,
                   <<checkbox_x + checkbox_size, checkbox_y + checkbox_size>>,
                   <<>>, "#6b6b6b"),
                Op("line", "checkmark", i, <<checkbox_x + 4, checkbox_y + 8>>,
                   <<checkbox_x + 7, checkbox_y + 11>>, <<>>, "#ffffff"),
                Op("line", "checkmark", i, <<checkbox_x + 7, checkbox_y + 11>>,
                   <<checkbox_x + 12, checkbox_y + 5>>, <<>>, "#ffffff")>>
         ELSE <<Op("ellipse", "checkbox_outline", i, <<checkbox_x, checkbox_y>>,
                   <<checkbox_x + checkbox_size, checkbox_y + checkbox_size>>,
                   <<>>, PriorityColor(task.priority))>>)
        \o <<Op("text", "content", i, <<content_x, content_y>>, <<content_x, content_y>>,
                task_text, IF task.completed THEN "#6b6b6b" ELSE "#ffffff")>>
        \o (IF task.completed
            THEN <<Op("line", "strikethrough", i, <<content_x, content_y + 8>>,
                      <<content_x + TextWidth(task_text), content_y + 8>>, <<>>, "#6b6b6b")>>
            ELSE <<>>)
        \o (IF ~task.completed /\ task.due_text # <<>>
            THEN <<Op("text", "due_text", i, <<content_x, info_y>>, <<content_x, info_y>>,
                      task.due_text, "#666666")>>
            ELSE <<>>)
        \o (IF TdSeparatorAfter(i, rows)
            THEN <<Op("line", "row_separator", i, <<12, line_y>>, <<228, line_y>>,
                      <<>>, "#2a2a2a")>>
            ELSE <<>>)

\* `if len(tasks) == 0`: the message drawn when there is no task.
TdEmptyOps(rows) ==
    IF Len(rows) = 0
    THEN <<Op("text", "empty_message", -1,
              <<IMAGE_WIDTH \div 2 - 70, IMAGE_HEIGHT \div 2 - 10>>,
              <<IMAGE_WIDTH \div 2 - 70, IMAGE_HEIGHT \div 2 - 10>>,
              <<"A","l","l"," ","d","o","n","e"," ","f","o","r"," ",
                "t","o","d","a","y","!"," ","U+2728">>, "#de4c4a")>>
    ELSE <<>>

\* All draw calls of create_display_image(tasks), in order.  The loop breaks
\* at i >= MAX_TASKS.
TdDrawOps(rows) ==
    LET n == IF Len(rows) < MAX_TASKS THEN Len(rows) ELSE MAX_TASKS
    IN  TdHeaderOps(rows)
        \o Concat([i \in 1..n |-> TdRowOps(i - 1, rows[i], rows)])
        \o TdEmptyOps(rows)

td_create_display_image(rows) == Image("todoist_today.jpg", TdDrawOps(rows))

-----------------------------------------------------------------------------
(* The runs *)

\* requests raises a RequestException for each of these; raise_for_status
\* raises HTTPError for a 4xx/5xx status.
FetchFailures == {"HTTPError", "ConnectionError", "Timeout"}

\* One HTTP request: what was asked, how it ended ("200" or the exception
\* raised) and the decoded body of a successful response.
Request(method, url, outcome, body) ==
    [method |-> method, url |-> url, outcome |-> outcome, body |-> body]

NoUpload ==
    [argv |-> Absent, fs |-> "missing", device_url |-> Absent, upload_dir |-> Absent,
     image_path |-> "", opened |-> 0, success |-> "unset", exit_code |-> -1]

\* The state shared by the start of every run.
Fresh ==
    /\ now \in Nows
    /\ saved = <<>>
    /\ printed = <<>>
    /\ net = <<>>
    /\ raised = "none"

Idle ==
    /\ token = Some("secret")
    /\ data = None
    /\ departures = <<>>
    /\ tasks = [active |-> <<>>, completed |-> <<>>]
    /\ parsed_tasks = <<>>
    /\ upl = NoUpload

-----------------------------------------------------------------------------
(* cm_departures.py: fetch_departures and main *)

InitCm ==
    /\ entry = "cm_departures.main"
    /\ pc = "main"
    /\ Fresh
    /\ Idle

\* data = fetch_departures(): one GET; a RequestException is caught, printed
\* and turned into None.
CmFetchResult(outcome, body) == IF outcome = "200" THEN body ELSE None

CmFetch ==
    /\ entry = "cm_departures.main"
    /\ pc = "main"
    /\ \E outcome \in {"200"} \cup FetchFailures, body \in Payloads :
        /\ outcome # "200" => body = Payload(TRUE, Absent)
        /\ net' = Append(net, Request("GET", <<"https://citymapper.com/api/1/departures">>,
                                      outcome, body))
        /\ data' = CmFetchResult(outcome, body)
        /\ printed' = printed \o <<"Fetching bus departures...">>
                      \o (IF outcome = "200" THEN <<>> ELSE <<"Error fetching data">>)
    /\ pc' = "fetched"
    /\ UNCHANGED <<entry, now, token, departures, tasks, parsed_tasks, saved, raised, upl>>

\* `if not data: print(...); return`
CmFailedFetch ==
    /\ entry = "cm_departures.main"
    /\ pc = "fetched"
    /\ ~Truthy(data)
    /\ printed' = Append(printed, "Failed to fetch departure data")
    /\ pc' = "done"
    /\ UNCHANGED <<entry, now, token, data, departures, tasks, parsed_tasks, saved,
                   net, raised, upl>>

\* departures = parse_departures(data)
CmParse ==
    /\ entry = "cm_departures.main"
    /\ pc = "fetched"
    /\ Truthy(data)
    /\ departures' = parse_departures(data, now)
    /\ printed' = Append(printed, "Parsing departures...")
    /\ pc' = "parsed"
    /\ UNCHANGED <<entry, now, token, data, tasks, parsed_tasks, saved, net, raised, upl>>

\* `if not departures: print(...); return`
CmNoDepartures ==
    /\ entry = "cm_departures.main"
    /\ pc = "parsed"
    /\ departures = <<>>
    /\ printed' = Append(printed, "No departures found")
    /\ pc' = "done"
    /\ UNCHANGED <<entry, now, token, data, departures, tasks, parsed_tasks, saved,
                   net, raised, upl>>

\* create_display_image(departures), then "Done!"
CmRender ==
    /\ entry = "cm_departures.main"
    /\ pc = "parsed"
    /\ departures # <<>>
    /\ saved' = Append(saved, cm_create_display_image(departures, now))
    /\ printed' = printed \o <<"Found upcoming buses", "Generating display image...",
                               "Display image saved", "Done!">>
    /\ pc' = "done"
    /\ UNCHANGED <<entry, now, token, data, departures, tasks, parsed_tasks, net,
                   raised, upl>>

NextCm == CmFetch \/ CmFailedFetch \/ CmParse \/ CmNoDepartures \/ CmRender

SpecCm == InitCm /\ [][NextCm]_vars

-----------------------------------------------------------------------------
(* todoist_today.py: module start-up, fetch_today_tasks and main *)

\* os.getenv('TODOIST_API_TOKEN'): unset, set to the empty string, or set.
Tokens == {Absent, Some(""), Some("secret")}

InitTd ==
    /\ entry = "todoist_today.main"
    /\ pc = "startup"
    /\ Fresh
    /\ token \in Tokens
    /\ data = None
    /\ departures = <<>>
    /\ tasks = [active |-> <<>>, completed |-> <<>>]
    /\ parsed_tasks = <<>>
    /\ upl = NoUpload

\* `if not API_TOKEN`
TokenMissing_unchecked(t) == FALSE

TokenMissing(t) == t = Absent \/ t = Some("")

\* Module level: `if not API_TOKEN: raise ValueError(...)`.
TdStartupMissingToken ==
    /\ entry = "todoist_today.main"
    /\ pc = "startup"
    /\ TokenMissing(token)
    /\ raised' = "ValueError"
    /\ pc' = "crashed"
    /\ UNCHANGED <<entry, now, token, data, departures, tasks, parsed_tasks, saved,
                   printed, net, upl>>

\* Module level passed; main() is called.
TdStartup ==
    /\ entry = "todoist_today.main"
    /\ pc = "startup"
    /\ ~TokenMissing(token)
    /\ printed' = Append(printed, "Fetching today's tasks from Todoist...")
    /\ pc' = "fetch_active"
    /\ UNCHANGED <<entry, now, token, data, departures, tasks, parsed_tasks, saved,
                   net, raised, upl>>

\* What the try block of a fetch leaves in its list: the decoded response, or
\* the initial empty list when a RequestException was caught.
FetchedList(outcome, body) == IF outcome = "200" THEN body ELSE <<>>

\* fetch_today_tasks, first try block: GET the active tasks.
TdFetchActive ==
    /\ entry = "todoist_today.main"
    /\ pc = "fetch_active"
    /\ \E outcome \in {"200"} \cup FetchFailures, body \in ActiveLists :
        /\ outcome # "200" => body = <<>>
        /\ net' = Append(net, Request("GET", <<"https://api.todoist.com/rest/v2/tasks">>,
                                      outcome, body))
        /\ tasks' = [active |-> FetchedList(outcome, body), completed |-> <<>>]
        /\ printed' = IF outcome = "200" THEN printed
                      ELSE Append(printed, "Error fetching active tasks")
    /\ pc' = "fetch_completed"
    /\ UNCHANGED <<entry, now, token, data, departures, parsed_tasks, saved, raised, upl>>

\* fetch_today_tasks, second try block: GET the completed items; then return
\* {'active': ..., 'completed': ...}.
TdFetchCompleted_shared_try ==
    /\ entry = "todoist_today.main"
    /\ pc = "fetch_completed"
    /\ \E outcome \in {"200"} \cup FetchFailures, body \in CompletedLists :
        /\ outcome # "200" => body = <<>>
        /\ net' = Append(net, Request("GET",
                                      <<"https://api.todoist.com/sync/v9/completed/get_all">>,
                                      outcome, body))
        /\ tasks' = IF outcome = "200"
                    THEN [active |-> tasks.active, completed |-> body]
                    ELSE [active |-> <<>>, completed |-> <<>>]
        /\ printed' = IF outcome = "200" THEN printed
                      ELSE Append(printed, "Error fetching completed tasks")
    /\ pc' = "fetched"
    /\ UNCHANGED <<entry, now, token, data, departures, parsed_tasks, saved, raised, upl>>

TdFetchCompleted ==
    /\ entry = "todoist_today.main"
    /\ pc = "fetch_completed"
    /\ \E outcome \in {"200"} \cup FetchFailures, body \in CompletedLists :
        /\ outcome # "200" => body = <<>>
        /\ net' = Append(net, Request("GET",
                                      <<"https://api.todoist.com/sync/v9/completed/get_all">>,
                                      outcome, body))
        /\ tasks' = [active |-> tasks.active, completed |-> FetchedList(outcome, body)]
        /\ printed' = IF outcome = "200" THEN printed
                      ELSE Append(printed, "Error fetching completed tasks")
    /\ pc' = "fetched"
    /\ UNCHANGED <<entry, now, token, data, departures, parsed_tasks, saved, raised, upl>>

\* parsed_tasks = parse_tasks(tasks); `tasks is None` never holds.
TdParse ==
    /\ entry = "todoist_today.main"
    /\ pc = "fetched"
    /\ parsed_tasks' = parse_tasks(tasks)
    /\ printed' = Append(printed, "Parsing tasks...")
    /\ pc' = "parsed"
    /\ UNCHANGED <<entry, now, token, data, departures, tasks, saved, net, raised, upl>>

\* `if not parsed_tasks: create_display_image([]); return`
TdRenderEmpty_returns_without_image ==
    /\ entry = "todoist_today.main"
    /\ pc = "parsed"
    /\ parsed_tasks = <<>>
    /\ printed' = Append(printed, "No tasks found for today")
    /\ pc' = "done"
    /\ UNCHANGED <<entry, now, token, data, departures, tasks, parsed_tasks, saved,
                   net, raised, upl>>

TdRenderEmpty ==
    /\ entry = "todoist_today.main"
    /\ pc = "parsed"
    /\ parsed_tasks = <<>>
    /\ saved' = Append(saved, td_create_display_image(<<>>))
    /\ printed' = printed \o <<"No tasks found for today", "Display image saved">>
    /\ pc' = "done"
    /\ UNCHANGED <<entry, now, token, data, departures, tasks, parsed_tasks, net,
                   raised, upl>>

\* create_display_image(parsed_tasks), then "Done!"
TdRender ==
    /\ entry = "todoist_today.main"
    /\ pc = "parsed"
    /\ parsed_tasks # <<>>
    /\ saved' = Append(saved, td_create_display_image(parsed_tasks))
    /\ printed' = printed \o <<"Found active and completed tasks",
                               "Generating display image...",
                               "Display image saved", "Done!">>
    /\ pc' = "done"
    /\ UNCHANGED <<entry, now, token, data, departures, tasks, parsed_tasks, net,
                   raised, upl>>

NextTd ==
    \/ TdStartupMissingToken
    \/ TdStartup
    \/ TdFetchActive
    \/ TdFetchCompleted
    \/ TdParse
    \/ TdRenderEmpty
    \/ TdRender

SpecTd == InitTd /\ [][NextTd]_vars

\* Both board pipelines: a run is one of the two scripts.
SpecBoards == (InitCm \/ InitTd) /\ [][NextCm \/ NextTd]_vars

-----------------------------------------------------------------------------
(* The two renderers called on a row list *)

\* Rows as parse_departures builds them.
TransitRows ==
    {DepartureInfo(s, RoutesOfStop, 1000) : s \in {x \in ServicePool : HasDeparture(x)}}

\* Rows as parse_tasks builds them, some with long contents.
TaskRows == {
    ActiveInfo([content |-> Some(Str(27)), priority |-> Some(3),
                due |-> Some([string |-> Some(<<"5","p","m">>)])]),
    ActiveInfo([content |-> Some(Str(26)), priority |-> Absent, due |-> Absent]),
    CompletedInfo([is_dict |-> TRUE, content |-> Some(Str(30))]),
    CompletedInfo([is_dict |-> TRUE, content |-> Absent]) }

InitRender ==
    /\ pc = "call"
    /\ Fresh
    /\ token = Some("secret")
    /\ data = None
    /\ tasks = [active |-> <<>>, completed |-> <<>>]
    /\ upl = NoUpload
    /\ \/ /\ entry = "cm_departures.create_display_image"
          /\ departures \in SeqsUpTo(TransitRows, MaxRowsTransit)
          /\ parsed_tasks = <<>>
       \/ /\ entry = "todoist_today.create_display_image"
          /\ departures = <<>>
          /\ parsed_tasks \in SeqsUpTo(TaskRows, MaxRowsTasks)

\* cm_departures.create_display_image(departures)
CmCreateDisplayImage ==
    /\ entry = "cm_departures.create_display_image"
    /\ pc = "call"
    /\ saved' = Append(saved, cm_create_display_image(departures, now))
    /\ printed' = Append(printed, "Display image saved")
    /\ pc' = "returned"
    /\ UNCHANGED <<entry, now, token, data, departures, tasks, parsed_tasks, net,
                   raised, upl>>

\* todoist_today.create_display_image(tasks)
TdCreateDisplayImage ==
    /\ entry = "todoist_today.create_display_image"
    /\ pc = "call"
    /\ saved' = Append(saved, td_create_display_image(parsed_tasks))
    /\ printed' = Append(printed, "Display image saved")
    /\ pc' = "returned"
    /\ UNCHANGED <<entry, now, token, data, departures, tasks, parsed_tasks, net,
                   raised, upl>>

NextRender == CmCreateDisplayImage \/ TdCreateDisplayImage

SpecRender == InitRender /\ [][NextRender]_vars

-----------------------------------------------------------------------------
(* upload.py: upload_image and main *)

IMAGE_FILE == "departures.jpg"

\* What is found at image_path: nothing, a readable file, or something that
\* exists and cannot be opened for reading (a directory, a file without
\* read permission).
FileStates == {"missing", "file", "directory", "unreadable"}

\* How requests.post ends once the request is sent: a status, or an exception.
PostOutcomes == {"200", "204", "404", "500", "ConnectionError", "Timeout"}

\* response.raise_for_status() passes.
StatusOk(outcome) == outcome \in {"200", "204"}

InitUpload ==
    /\ entry = "upload.main"
    /\ pc = "main"
    /\ Fresh
    /\ token = Some("secret")
    /\ data = None
    /\ departures = <<>>
    /\ tasks = [active |-> <<>>, completed |-> <<>>]
    /\ parsed_tasks = <<>>
    /\ \E argv \in {Absent, Some("departures.jpg"), Some("todoist_today.jpg")},
          fs \in FileStates,
          device_url \in {Absent, Some("http://192.168.1.50/doUpload")},
          upload_dir \in {Absent, Some("/gif/")} :
        upl = [argv |-> argv, fs |-> fs, device_url |-> device_url,
               upload_dir |-> upload_dir, image_path |-> "", opened |-> 0,
               success |-> "unset", exit_code |-> -1]

\* main: image_path = sys.argv[1] if len(sys.argv) > 1 else IMAGE_FILE; then
\* upload_image(image_path) is entered.
UploadMain ==
    /\ entry = "upload.main"
    /\ pc = "main"
    /\ upl' = [upl EXCEPT !.image_path = Get(upl.argv, IMAGE_FILE)]
    /\ pc' = "exists"
    /\ UNCHANGED <<entry, now, token, data, departures, tasks, parsed_tasks, saved,
                   printed, net, raised>>

\* os.path.exists(image_path)
Exists_unchecked(fs) == TRUE

Exists(fs) == fs # "missing"

\* `if not os.path.exists(image_path): print(...); return False`
UploadMissingFile ==
    /\ entry = "upload.main"
    /\ pc = "exists"
    /\ ~Exists(upl.fs)
    /\ printed' = Append(printed, "Error: Image file not found")
    /\ upl' = [upl EXCEPT !.success = "False"]
    /\ pc' = "returned"
    /\ UNCHANGED <<entry, now, token, data, departures, tasks, parsed_tasks, saved,
                   net, raised>>

\* `with open(image_path, 'rb') as f` succeeds.
UploadOpen ==
    /\ entry = "upload.main"
    /\ pc = "exists"
    /\ Exists(upl.fs)
    /\ upl.fs = "file"
    /\ upl' = [upl EXCEPT !.opened = @ + 1]
    /\ printed' = Append(printed, "Uploading...")
    /\ pc' = "post"
    /\ UNCHANGED <<entry, now, token, data, departures, tasks, parsed_tasks, saved,
                   net, raised>>

\* open() raises an OSError, which `except RequestException` does not catch:
\* it leaves upload_image and main.
UploadOpenFails ==
    /\ entry = "upload.main"
    /\ pc = "exists"
    /\ Exists(upl.fs)
    /\ upl.fs # "file"
    /\ raised' = "OSError"
    /\ pc' = "raised"
    /\ UNCHANGED <<entry, now, token, data, departures, tasks, parsed_tasks, saved,
                   printed, net, upl>>

\* The value upload_image returns after requests.post ended with `outcome`.
UploadResult(outcome) == IF StatusOk(outcome) THEN "True" ELSE "False"

\* requests.post(url, files=files, timeout=10); raise_for_status(); return
\* True, or the RequestException is caught and False is returned.  With
\* DEVICE_URL unset the url is "None?dir=..." and requests raises
\* MissingSchema (a RequestException) before anything is sent.
UploadPost ==
    /\ entry = "upload.main"
    /\ pc = "post"
    /\ IF upl.device_url = Absent
       THEN /\ net' = net
            /\ upl' = [upl EXCEPT !.success = "False"]
            /\ printed' = Append(printed, "Upload failed")
       ELSE \E outcome \in PostOutcomes :
            /\ net' = Append(net, Request("POST",
                                 <<upl.device_url[1], "?dir=", Get(upl.upload_dir, "/image/")>>,
                                 outcome, upl.image_path))
            /\ upl' = [upl EXCEPT !.success = UploadResult(outcome)]
            /\ printed' = Append(printed, IF StatusOk(outcome) THEN "Upload successful!"
                                          ELSE "Upload failed")
    /\ pc' = "returned"
    /\ UNCHANGED <<entry, now, token, data, departures, tasks, parsed_tasks, saved,
                   raised>>

\* sys.exit(0 if success else 1)
ExitCode_always_zero(success) == 0

ExitCode(success) == IF success = "True" THEN 0 ELSE 1

UploadExit ==
    /\ entry = "upload.main"
    /\ pc = "returned"
    /\ upl' = [upl EXCEPT !.exit_code = ExitCode(upl.success)]
    /\ pc' = "exited"
    /\ UNCHANGED <<entry, now, token, data, departures, tasks, parsed_tasks, saved,
                   printed, net, raised>>

\* The uncaught exception ends the interpreter with exit status 1.
UploadCrash ==
    /\ entry = "upload.main"
    /\ pc = "raised"
    /\ upl' = [upl EXCEPT !.exit_code = 1]
    /\ pc' = "exited"
    /\ UNCHANGED <<entry, now, token, data, departures, tasks, parsed_tasks, saved,
                   printed, net, raised>>

NextUpload ==
    \/ UploadMain
    \/ UploadMissingFile
    \/ UploadOpen
    \/ UploadOpenFails
    \/ UploadPost
    \/ UploadExit
    \/ UploadCrash

SpecUpload == InitUpload /\ [][NextUpload]_vars

-----------------------------------------------------------------------------
(* Properties of parse_departures, checked under SpecCm *)

\* The services of the first stop of the payload main holds.
ServicesOf(d) ==
    IF Truthy(d) /\ NonEmpty(d.stops) THEN Get(d.stops[1][1].services, <<>>) ELSE <<>>

LiveOf(service) == Get(service.live_departures_seconds, <<>>)

ScheduledOf(service) == Get(service.next_departures, <<>>)

\* The services that have a departure to show, by index.
Eligible(d) ==
    {i \in 1..Len(ServicesOf(d)) :
        LiveOf(ServicesOf(d)[i]) # <<>> \/ ScheduledOf(ServicesOf(d)[i]) # <<>>}

\* Seconds until the departure of a service: the first live value, else the
\* first scheduled instant minus now.
SecondsUntil(service) ==
    IF LiveOf(service) # <<>> THEN LiveOf(service)[1]
    ELSE ScheduledOf(service)[1].instant - now

Parsed == entry = "cm_departures.main" /\ pc \in {"parsed", "done"} /\ Truthy(data)

Min(a, b) == IF a < b THEN a ELSE b

\* C1: parse_departures returns at most 4 rows, in ascending order of
\* sort_key, and they are the soonest departures of all eligible services:
\* the i-th row carries the i-th smallest seconds-until value.
C1_SoonestFour ==
    Parsed =>
        /\ Len(departures) <= 4
        /\ Len(departures) = Min(4, Cardinality(Eligible(data)))
        /\ \A i, j \in 1..Len(departures) :
              i < j => departures[i].sort_key <= departures[j].sort_key
        /\ \A i \in 1..Len(departures) :
              LET k == departures[i].sort_key
                  sooner == {e \in Eligible(data) : SecondsUntil(ServicesOf(data)[e]) < k}
                  upto == {e \in Eligible(data) : SecondsUntil(ServicesOf(data)[e]) <= k}
              IN  Cardinality(sooner) < i /\ i <= Cardinality(upto)

\* More than four eligible services, live and scheduled, the soonest of them
\* last in the payload: the sort and the truncation both matter.
C1_Witness ==
    /\ Parsed
    /\ pc = "parsed"
    /\ Cardinality(Eligible(data)) = 5
    /\ Len(departures) = 4
    /\ SecondsUntil(ServicesOf(data)[5]) < SecondsUntil(ServicesOf(data)[1])
    /\ departures[1].sort_key = SecondsUntil(ServicesOf(data)[5])
    /\ \E i, j \in 1..4 : departures[i].is_live /\ ~departures[j].is_live

\* f"{minutes} min" for minutes = floor(seconds / 60).
MinutesText(seconds) ==
    LET m == CHOOSE m \in -100..100 : 60 * m <= seconds /\ seconds < 60 * m + 60
    IN  IntStr(m) \o <<" ", "m", "i", "n">>

\* The row of `rows` is the row service must produce under the mode rule.
RowOfService(row, service) ==
    IF LiveOf(service) # <<>>
    THEN /\ row.is_live
         /\ row.sort_key = LiveOf(service)[1]
         /\ row.time_text = MinutesText(LiveOf(service)[1])
    ELSE /\ ScheduledOf(service) # <<>>
         /\ ~row.is_live
         /\ row.sort_key = ScheduledOf(service)[1].instant - now

\* C9: a service with a non-empty live list gives a live row (sort_key the
\* first live value, time_text floor(value / 60) " min") whatever its
\* scheduled list; otherwise a non-empty scheduled list gives a scheduled
\* row; otherwise no row.  Before truncation there is one row per service
\* that has a non-empty list.
C9_ModeSelection ==
    Parsed =>
        LET services == ServicesOf(data)
            routes == IF NonEmpty(data.stops) THEN Get(data.stops[1][1].routes, <<>>)
                      ELSE <<>>
            built == DepartureList(services, routes, now)
            order == [i \in 1..Cardinality(Eligible(data)) |->
                        CHOOSE e \in Eligible(data) :
                            Cardinality({f \in Eligible(data) : f < e}) = i - 1]
        IN  /\ Len(built) = Cardinality(Eligible(data))
            /\ \A i \in 1..Len(built) : RowOfService(built[i], services[order[i]])
            /\ Len(departures) = Min(4, Cardinality(Eligible(data)))
            /\ \A i \in 1..Len(departures) :
                  \E e \in Eligible(data) : RowOfService(departures[i], services[e])
            /\ \A e \in Eligible(data) :
                  Cardinality(Eligible(data)) <= 4 =>
                      \E i \in 1..Len(departures) : RowOfService(departures[i], services[e])

\* A payload with a service that has both lists, one with only a scheduled
\* list, one with a negative live value and one with neither.
C9_Witness ==
    /\ Parsed
    /\ pc = "parsed"
    /\ LET services == ServicesOf(data)
       IN  /\ Len(services) = 4
           /\ LiveOf(services[1]) # <<>> /\ ScheduledOf(services[1]) # <<>>
           /\ LiveOf(services[2]) = <<>> /\ ScheduledOf(services[2]) = <<>>
           /\ LiveOf(services[3]) = <<>> /\ ScheduledOf(services[3]) # <<>>
           /\ LiveOf(services[4]) = <<-30>>
    /\ Len(departures) = 3
    /\ departures[1].time_text = <<"-", "1", " ", "m", "i", "n">>
    /\ departures[3].is_live /\ departures[3].sort_key = 90

-----------------------------------------------------------------------------
(* Properties of parse_tasks and of the start-up check, checked under SpecTd *)

TasksParsed == entry = "todoist_today.main" /\ pc \in {"parsed", "done"}

\* C2: parse_tasks returns at most 6 rows, every active row before every
\* completed row; active rows by non-increasing priority, equal priorities by
\* ascending lowercased content; completed rows by ascending lowercased
\* content of the row.
C2_TaskOrder ==
    TasksParsed =>
        /\ Len(parsed_tasks) <= 6
        /\ \A i, j \in 1..Len(parsed_tasks) :
              i < j =>
                LET a == parsed_tasks[i]
                    b == parsed_tasks[j]
                IN  /\ ~(a.completed /\ ~b.completed)
                    /\ (~a.completed /\ ~b.completed) => a.priority >= b.priority
                    /\ (~a.completed /\ ~b.completed /\ a.priority = b.priority)
                          => StrLeq(Lower(a.content), Lower(b.content))
                    /\ (a.completed /\ b.completed)
                          => StrLeq(Lower(a.content), Lower(b.content))

\* C7: with the token absent from the environment the run ends in the
\* start-up error: no request is ever issued, no image is ever written.
C7_TokenFatal ==
    (entry = "todoist_today.main" /\ token = Absent) =>
        /\ net = <<>>
        /\ saved = <<>>
        /\ parsed_tasks = <<>>
        /\ pc \in {"startup", "crashed"}
        /\ pc = "crashed" => raised = "ValueError"

\* The run has ended in the ValueError raised at module level.
C7_Witness ==
    /\ entry = "todoist_today.main"
    /\ token = Absent
    /\ pc = "crashed"
    /\ raised = "ValueError"
    /\ net = <<>>

-----------------------------------------------------------------------------
(* Properties of the two renderers, checked under SpecRender *)

Rendered ==
    /\ entry \in {"cm_departures.create_display_image",
                  "todoist_today.create_display_image"}
    /\ pc = "returned"

\* The row list the renderer was called with.
RowsGiven ==
    IF entry = "cm_departures.create_display_image" THEN departures ELSE parsed_tasks

\* The text the row carries and the character budget of its renderer.
RowText(row) ==
    IF entry = "cm_departures.create_display_image" THEN row.headsign ELSE row.content

Budget == IF entry = "cm_departures.create_display_image" THEN 11 ELSE 26

Marker == IF entry = "cm_departures.create_display_image" THEN <<".">> ELSE <<".", ".", ".">>

TextRole == IF entry = "cm_departures.create_display_image" THEN "headsign" ELSE "content"

RowLimit == IF entry = "cm_departures.create_display_image" THEN 4 ELSE 6

\* The draw calls of role `role` made for row i (from 0) on the saved image.
OpsOf(role, i) ==
    {n \in 1..Len(saved[1].ops) : saved[1].ops[n].role = role /\ saved[1].ops[n].row = i}

\* C3: a text longer than the budget (11 for a destination, 26 for a task
\* content) is drawn as its first 10 (23) characters followed by the marker;
\* a text within the budget is drawn unchanged; the drawn text never exceeds
\* the budget.
C3_Truncation ==
    Rendered =>
        \A i \in 1..Min(Len(RowsGiven), RowLimit) :
            LET t == RowText(RowsGiven[i])
                keep == Budget - Len(Marker)
            IN  /\ Cardinality(OpsOf(TextRole, i - 1)) = 1
                /\ \A n \in OpsOf(TextRole, i - 1) :
                      LET shown == saved[1].ops[n].text
                      IN  /\ Len(shown) <= Budget
                          /\ Len(t) <= Budget => shown = t
                          /\ Len(t) > Budget =>
                                /\ Len(shown) = keep + Len(Marker)
                                /\ \A c \in 1..keep : shown[c] = t[c]
                                /\ \A c \in 1..Len(Marker) : shown[keep + c] = Marker[c]

\* The transit board drew a 12-character and an 11-character destination.
C3_Witness ==
    /\ Rendered
    /\ entry = "cm_departures.create_display_image"
    /\ Len(departures) = 2
    /\ Len(departures[1].headsign) = 12
    /\ Len(departures[2].headsign) = 11
    /\ \E n \in OpsOf("headsign", 0) : Len(saved[1].ops[n].text) = 11
                                        /\ saved[1].ops[n].text[11] = "."
    /\ \E n \in OpsOf("headsign", 1) : saved[1].ops[n].text = departures[2].headsign

\* The task board drew a 27-character and a 26-character content.
C3_WitnessTasks ==
    /\ Rendered
    /\ entry = "todoist_today.create_display_image"
    /\ Len(parsed_tasks) = 2
    /\ Len(parsed_tasks[1].content) = 27
    /\ Len(parsed_tasks[2].content) = 26
    /\ \E n \in OpsOf("content", 0) : Len(saved[1].ops[n].text) = 26
    /\ \E n \in OpsOf("content", 1) : saved[1].ops[n].text = parsed_tasks[2].content

\* C4: either renderer, called with an empty row list, saves one 240x240
\* image on which something besides the header and the captions is drawn:
\* an empty-state message.
C4_EmptyState ==
    (Rendered /\ RowsGiven = <<>>) =>
        /\ Len(saved) = 1
        /\ saved[1].width = 240 /\ saved[1].height = 240
        /\ \E n \in 1..Len(saved[1].ops) :
              /\ saved[1].ops[n].op = "text"
              /\ saved[1].ops[n].role \notin {"title", "clock", "caption"}

\* C10: for a list of k rows (1 <= k <= N) a separator line is drawn after
\* row i exactly when i < k - 1.
C10_Separators ==
    (Rendered /\ Len(RowsGiven) >= 1 /\ Len(RowsGiven) <= RowLimit) =>
        \A i \in 0..(Len(RowsGiven) - 1) :
            (OpsOf("row_separator", i) # {}) <=> (i < Len(RowsGiven) - 1)

-----------------------------------------------------------------------------
(* Properties of the uploader, checked under SpecUpload *)

Posts == {i \in 1..Len(net) : net[i].method = "POST"}

\* C5: with no file at the path, upload_image returns False; no POST is ever
\* attempted and the file is never opened.  In every run nothing is opened
\* or sent before the existence check.
C5_MissingFile ==
    entry = "upload.main" =>
        /\ pc \in {"main", "exists"} => net = <<>> /\ upl.opened = 0
        /\ upl.fs = "missing" =>
              /\ net = <<>>
              /\ upl.opened = 0
              /\ raised = "none"
              /\ pc \in {"main", "exists", "returned", "exited"}
              /\ pc \in {"returned", "exited"} => upl.success = "False"

\* upload_image has returned False for a missing file, a device being
\* configured.
C5_Witness ==
    /\ entry = "upload.main"
    /\ pc = "returned"
    /\ upl.fs = "missing"
    /\ upl.device_url # Absent
    /\ upl.success = "False"
    /\ net = <<>>

\* C6: at most one POST per run; upload_image returns True exactly when that
\* POST ended with a success status, False otherwise; the exit code is 0
\* exactly when upload_image returned True and non-zero otherwise.
C6_OnePostExitCode ==
    entry = "upload.main" =>
        /\ Cardinality(Posts) <= 1
        /\ pc = "returned" => upl.success \in {"True", "False"}
        /\ pc \in {"returned", "exited"} =>
              (upl.success = "True"
                 <=> \E i \in Posts : net[i].outcome \in {"200", "204"})
        /\ pc = "exited" =>
              /\ upl.exit_code = 0 <=> upl.success = "True"
              /\ upl.success # "True" => upl.exit_code > 0

\* The run has exited non-zero after its single POST failed with status 500.
C6_Witness ==
    /\ entry = "upload.main"
    /\ pc = "exited"
    /\ Len(net) = 1
    /\ net[1].method = "POST" /\ net[1].outcome = "500"
    /\ upl.success = "False"
    /\ upl.exit_code = 1

-----------------------------------------------------------------------------
(* Fetch failures in the two board pipelines, checked under SpecBoards *)

FailedFetch == \E i \in 1..Len(net) : net[i].outcome # "200"

\* What a call contributed: its decoded body, nothing when it failed.
Contribution(i) == IF net[i].outcome = "200" THEN net[i].body ELSE <<>>

\* The task rows of the two groups match what the two calls contributed:
\* active rows first, up to 6, then completed dict items in what is left.
RowsKept ==
    LET nActive == Count(parsed_tasks, FALSE)
        nCompleted == Count(parsed_tasks, TRUE)
        dicts == {k \in 1..Len(Contribution(2)) : Contribution(2)[k].is_dict}
    IN  /\ nActive = Min(6, Len(Contribution(1)))
        /\ nCompleted = Min(6 - nActive, Cardinality(dicts))

\* C8 as stated: a run of either pipeline in which a fetch failed still goes
\* through normalization and rendering, and the task rows of a succeeding
\* call are kept.
C8_FetchFailureContinues ==
    /\ FailedFetch => raised = "none" /\ pc # "crashed"
    /\ (FailedFetch /\ pc = "done") => Len(saved) = 1
    /\ (entry = "todoist_today.main" /\ pc \in {"parsed", "done"}) => RowsKept

\* C8 amended: a failed fetch never raises out of either pipeline and
\* contributes no data.  The task pipeline goes on through normalization and
\* rendering, keeping the rows of a succeeding call, for every combination of
\* outcomes of its two calls.  The transit pipeline ends after its failed
\* fetch without normalizing or rendering.
C8_FetchFailureAbsorbed ==
    /\ FailedFetch => raised = "none" /\ pc # "crashed"
    /\ (entry = "todoist_today.main" /\ pc \in {"fetched", "parsed", "done"}) =>
          /\ tasks.active = Contribution(1)
          /\ tasks.completed = Contribution(2)
    /\ (entry = "todoist_today.main" /\ pc \in {"parsed", "done"}) => RowsKept
    /\ (entry = "todoist_today.main" /\ pc = "done") =>
          /\ Len(saved) = 1
          /\ Cardinality({n \in 1..Len(saved[1].ops) : saved[1].ops[n].role = "content"})
                = Len(parsed_tasks)
    /\ (entry = "cm_departures.main" /\ FailedFetch) =>
          /\ data = None
          /\ pc \in {"fetched", "done"}
          /\ departures = <<>>
          /\ saved = <<>>

\* The active call failed, the completed call gave two dict items: the run
\* ended with an image of the two completed rows.
C8_Witness ==
    /\ entry = "todoist_today.main"
    /\ pc = "done"
    /\ net[1].outcome = "Timeout"
    /\ net[2].outcome = "200"
    /\ Len(net[2].body) = 2
    /\ Len(parsed_tasks) = 2
    /\ Len(saved) = 1

-----------------------------------------------------------------------------
(* Image production per run, checked under SpecBoards *)

\* The transit fetch returned data of which at least one service has a
\* departure to show.
TransitHasRows ==
    /\ Len(net) = 1
    /\ net[1].outcome = "200"
    /\ Truthy(net[1].body)
    /\ Eligible(net[1].body) # {}

\* The number of rows drawn on the saved image.
RowsDrawn(role) ==
    Cardinality({n \in 1..Len(saved[1].ops) : saved[1].ops[n].role = role})

\* C11: the transit main writes an image if and only if the fetch returned
\* data and at least one row survived normalization; otherwise it prints a
\* message and returns with no image.  The task main, once past start-up,
\* renders exactly once and writes an image, of the empty list when no row
\* survived; no step before the end of the run writes one.
C11_ImagePerRun ==
    /\ Len(saved) <= 1
    /\ pc \notin {"done"} => saved = <<>>
    /\ (entry = "cm_departures.main" /\ pc = "done") =>
          /\ Len(saved) = 1 <=> TransitHasRows
          /\ TransitHasRows =>
                /\ saved[1].path = "departures.jpg"
                /\ RowsDrawn("headsign") = Len(departures)
                /\ Len(departures) = Min(4, Cardinality(Eligible(net[1].body)))
          /\ ~TransitHasRows =>
                \/ printed[Len(printed)] = "Failed to fetch departure data"
                \/ printed[Len(printed)] = "No departures found"
    /\ (entry = "todoist_today.main" /\ pc = "done") =>
          /\ Len(saved) = 1
          /\ saved[1].path = "todoist_today.jpg"
          /\ RowsDrawn("content") = Len(parsed_tasks)
          /\ parsed_tasks = <<>> <=> RowsDrawn("empty_message") = 1

\* The transit fetch succeeded with two services, neither of which has a
\* departure: the run ended with the message and no image.
C11_Witness ==
    /\ entry = "cm_departures.main"
    /\ pc = "done"
    /\ net[1].outcome = "200"
    /\ Len(ServicesOf(net[1].body)) = 2
    /\ Eligible(net[1].body) = {}
    /\ saved = <<>>
    /\ printed[Len(printed)] = "No departures found"

\* Both task calls failed: the run ended with the image of the empty list.
C11_WitnessTasks ==
    /\ entry = "todoist_today.main"
    /\ pc = "done"
    /\ net[1].outcome # "200" /\ net[2].outcome # "200"
    /\ Len(saved) = 1
    /\ RowsDrawn("empty_message") = 1

-----------------------------------------------------------------------------
(* Layout of the rows on the canvas, checked under SpecRender *)

\* The band of row i (from 0) of the renderer that ran: its first and the
\* line after its last.
BandTop(i) ==
    IF entry = "cm_departures.create_display_image" THEN CmRowTop(i) ELSE TdRowTop(i)

BandBottom(i) ==
    BandTop(i) + (IF entry = "cm_departures.create_display_image"
                  THEN CmRowHeight ELSE TdRowHeight)

\* The rows the loop drew: those that have draw calls on the saved image.
RowsRendered == {saved[1].ops[n].row : n \in 1..Len(saved[1].ops)} \ {-1}

\* C12: for a list of at most N rows, the band of every rendered row, from
\* start + i * row_height and row_height tall, lies within the canvas
\* height 0..240.
C12_RowsOnCanvas ==
    (Rendered /\ Len(RowsGiven) <= RowLimit) =>
        /\ RowsRendered = 0..(Len(RowsGiven) - 1)
        /\ \A i \in RowsRendered :
              /\ 0 <= BandTop(i)
              /\ BandBottom(i) <= saved[1].height

=============================================================================
